---- MODULE Spec2Model ----
(***************************************************************************)
(* Identity / family resolution of src/clean.py.                           *)
(*                                                                         *)
(* Two record tables (HMIS, Connecting Point), two Link Plus duplicate     *)
(* tables and one cross-source match table are turned into two graphs      *)
(* (individuals, families); the connected components of each graph are     *)
(* numbered in enumeration order and merged back onto both record tables;  *)
(* the family flags are then derived per table.                            *)
(*                                                                         *)
(* A table is a sequence of rows, a row a record of its columns.  A graph  *)
(* is [nodes, edges]: nodes in insertion order (the order networkx         *)
(* iterates them in), edges a set of unordered pairs ({n} is a self-loop). *)
(***************************************************************************)
EXTENDS Integers, Sequences, FiniteSets

VARIABLES
    pc,                \* position in get_hmis_cp / the function under study
    hmis, cp,          \* the two record tables
    hmis_dups, cp_dups,\* the Link Plus duplicate tables (Set ID, id)
    matching,          \* the cross-source match table
    G_individuals, G_families,
    hmis_individuals, cp_individuals, hmis_families, cp_families,
    edges,             \* edge list returned by group_edges / matching_edges
    grouped_ids,       \* argument of create_dataframe_from_grouped_ids
    frame,             \* its result: raw id -> label
    raised             \* TRUE iff the call under study ended with an exception

vars == <<pc, hmis, cp, hmis_dups, cp_dups, matching, G_individuals, G_families,
          hmis_individuals, cp_individuals, hmis_families, cp_families,
          edges, grouped_ids, frame, raised>>

----------------------------------------------------------------------------
(* Bounds and value domains *)

\* total number of rows over the five input tables (identity runs)
MaxRows == 4
\* total number of rows over the two record tables (family-flag runs)
MaxFamRows == 3
\* rows of the table handed to group_edges on its own
MaxEdgeRows == 4
\* rows of the table handed to matching_edges on its own
MaxMatchRows == 2
\* groups handed to create_dataframe_from_grouped_ids on its own
MaxGroups == 3

\* a missing cell (NaN / NaT); ids, keys and labels are all >= 0
Null == -1

ADULT_AGE == 18

Ids == {1, 2}
Ages == {ADULT_AGE - 1, ADULT_AGE}

Range(s) == {s[i] : i \in DOMAIN s}
SeqsOfLen(S, n) == [1..n -> S]
Max(S) == CHOOSE x \in S : \A y \in S : y <= x

----------------------------------------------------------------------------
(* networkx.Graph *)

EmptyGraph == [nodes |-> <<>>, edges |-> {}]

add_node(G, n) ==
    IF n \in Range(G.nodes) THEN G ELSE [G EXCEPT !.nodes = Append(@, n)]

\* variant: the record identifiers are never inserted
add_no_nodes(G, ns) == G

RECURSIVE add_nodes_from(_, _)
add_nodes_from(G, ns) ==
    IF ns = <<>> THEN G
    ELSE add_nodes_from(add_node(G, Head(ns)), Tail(ns))

\* variant: the edge is recorded, its endpoints are not inserted
add_edge_between_known_nodes(G, e) ==
    [G EXCEPT !.edges = @ \cup {{e[1], e[2]}}]

\* add_edge inserts both endpoints when they are not nodes yet
add_edge(G, e) ==
    LET G1 == add_node(add_node(G, e[1]), e[2])
    IN  [G1 EXCEPT !.edges = @ \cup {{e[1], e[2]}}]

RECURSIVE add_edges_from(_, _)
add_edges_from(G, es) ==
    IF es = <<>> THEN G
    ELSE add_edges_from(add_edge(G, Head(es)), Tail(es))

Neighbors(G, n) == {m \in Range(G.nodes) : {n, m} \in G.edges}

RECURSIVE PlainBfs(_, _, _)
PlainBfs(G, seen, frontier) ==
    IF frontier = {} THEN seen
    ELSE LET next == (UNION {Neighbors(G, n) : n \in frontier}) \ seen
         IN  PlainBfs(G, seen \cup next, next)

RECURSIVE ComponentsFrom(_, _, _)
ComponentsFrom(G, i, seen) ==
    IF i > Len(G.nodes) THEN <<>>
    ELSE IF G.nodes[i] \in seen THEN ComponentsFrom(G, i + 1, seen)
    ELSE LET c == PlainBfs(G, {G.nodes[i]}, {G.nodes[i]})
         IN  <<c>> \o ComponentsFrom(G, i + 1, seen \cup c)

\* the components as node sets, in the order of their first node
connected_components(G) == ComponentsFrom(G, 1, {})

----------------------------------------------------------------------------
(* Edge lists from the evidence *)

\* df[group_ids + [individual_id]]
SelectColumns(df) == [i \in DOMAIN df |-> [key |-> df[i].key, id |-> df[i].id]]

HasNa(r) == r.id = Null \/ \E i \in DOMAIN r.key : r.key[i] = Null

dropna(df) == SelectSeq(df, LAMBDA r : ~HasNa(r))

\* variant: repeated rows are kept
keep_duplicates(df) == df

RECURSIVE drop_duplicates(_)
drop_duplicates(df) ==
    IF df = <<>> THEN <<>>
    ELSE LET front == drop_duplicates(SubSeq(df, 1, Len(df) - 1))
             last  == df[Len(df)]
         IN  IF last \in Range(front) THEN front ELSE Append(front, last)

\* the rows of groups.merge(groups) whose left row is groups[i]
MergeRow(groups, i) ==
    LET same == SelectSeq(groups, LAMBDA r : r.key = groups[i].key)
    IN  [j \in DOMAIN same |-> <<groups[i].id, same[j].id>>]

RECURSIVE MergeFrom(_, _)
MergeFrom(groups, i) ==
    IF i > Len(groups) THEN <<>>
    ELSE MergeRow(groups, i) \o MergeFrom(groups, i + 1)

group_edges(node_prefix, df) ==
    LET groups == drop_duplicates(dropna(SelectColumns(df)))
        merged == MergeFrom(groups, 1)
    IN  [k \in DOMAIN merged |->
            << <<node_prefix, merged[k][1]>>, <<node_prefix, merged[k][2]>> >>]

\* dropna() runs on the whole match table, before the two id columns are taken
MatchHasNa(r) == r.clientid = Null \/ r.sui = Null \/ r.other = Null

matching_edges(df) ==
    LET kept == SelectSeq(df, LAMBDA r : ~MatchHasNa(r))
    IN  [k \in DOMAIN kept |-> << <<"c", kept[k].clientid>>, <<"h", kept[k].sui>> >>]

----------------------------------------------------------------------------
(* Labels *)

get_ids_from_nodes(node_prefix, nodes) ==
    {n[2] : n \in {m \in nodes : m[1] = node_prefix}}

\* variant: components without a member of the source are skipped, which
\* renumbers the labels per source
ProjectNonEmptyComponents(node_prefix, comps) ==
    SelectSeq([i \in DOMAIN comps |-> get_ids_from_nodes(node_prefix, comps[i])],
              LAMBDA g : g # {})

\* one group per component, empty groups kept: the position is the label
ProjectComponents(node_prefix, comps) ==
    [i \in DOMAIN comps |-> get_ids_from_nodes(node_prefix, comps[i])]

\* {id: idx for idx, ids in enumerate(grouped_ids) for id in ids}:
\* a later group overwrites an earlier one, nothing is raised
create_dataframe_from_grouped_ids(groups) ==
    [id \in UNION Range(groups) |->
        Max({idx \in DOMAIN groups : id \in groups[idx]}) - 1]

\* value joined onto a row by merge(..., right_index=True, how='left')
Lookup(labels, id) == IF id \in DOMAIN labels THEN labels[id] ELSE Null

----------------------------------------------------------------------------
(* get_client_family_ids *)

NodeList(node_prefix, df) == [i \in DOMAIN df |-> <<node_prefix, df[i].id>>]

\* variant: the family graph starts from the nodes alone
CopyNodesOnly(G) == [nodes |-> G.nodes, edges |-> {}]

\* G.copy(): an independent graph with the same nodes and edges
GraphCopy(G) == [nodes |-> G.nodes, edges |-> G.edges]

IndividualsGraph ==
    LET G0 == add_nodes_from(EmptyGraph, NodeList("h", hmis))
        G1 == add_nodes_from(G0, NodeList("c", cp))
        G2 == add_edges_from(G1, group_edges("h", hmis_dups))
        G3 == add_edges_from(G2, group_edges("c", cp_dups))
    IN  add_edges_from(G3, matching_edges(matching))

FamiliesGraph(G) ==
    LET F0 == GraphCopy(G)
        F1 == add_edges_from(F0, group_edges("h", hmis))
    IN  add_edges_from(F1, group_edges("c", cp))

BuildIndividuals ==
    /\ pc = "individuals"
    /\ G_individuals' = IndividualsGraph
    /\ pc' = "families"
    /\ UNCHANGED <<hmis, cp, hmis_dups, cp_dups, matching, G_families,
                   hmis_individuals, cp_individuals, hmis_families, cp_families,
                   edges, grouped_ids, frame, raised>>

\* variant: no copy, the family edges are added to the identity graph itself
BuildFamiliesInPlace ==
    /\ pc = "families"
    /\ G_families' = FamiliesGraph(G_individuals)
    /\ G_individuals' = G_families'
    /\ pc' = "labels"
    /\ UNCHANGED <<hmis, cp, hmis_dups, cp_dups, matching,
                   hmis_individuals, cp_individuals, hmis_families, cp_families,
                   edges, grouped_ids, frame, raised>>

BuildFamilies ==
    /\ pc = "families"
    /\ G_families' = FamiliesGraph(G_individuals)
    /\ pc' = "labels"
    /\ UNCHANGED <<hmis, cp, hmis_dups, cp_dups, matching, G_individuals,
                   hmis_individuals, cp_individuals, hmis_families, cp_families,
                   edges, grouped_ids, frame, raised>>

LabelFrame(node_prefix, G) ==
    create_dataframe_from_grouped_ids(
        ProjectComponents(node_prefix, connected_components(G)))

\* the two left joins onto one record table
MergeLabels(df, individuals, families) ==
    [i \in DOMAIN df |->
        [id |-> df[i].id, key |-> df[i].key, age |-> df[i].age,
         ind |-> Lookup(individuals, df[i].id),
         fam |-> Lookup(families, df[i].id)]]

ResolveLabels ==
    /\ pc = "labels"
    /\ hmis_individuals' = LabelFrame("h", G_individuals)
    /\ cp_individuals' = LabelFrame("c", G_individuals)
    /\ hmis_families' = LabelFrame("h", G_families)
    /\ cp_families' = LabelFrame("c", G_families)
    /\ hmis' = MergeLabels(hmis, hmis_individuals', hmis_families')
    /\ cp' = MergeLabels(cp, cp_individuals', cp_families')
    /\ pc' = "child_status"
    /\ UNCHANGED <<hmis_dups, cp_dups, matching, G_individuals, G_families,
                   edges, grouped_ids, frame, raised>>

----------------------------------------------------------------------------
(* child status and family characteristics *)

\* the age column is 'Age Entered' (HMIS, from the two dates) or 'age' (CP);
\* a comparison with NaN is False, so a row of unknown age is an adult
IsChild(age) == age # Null /\ age < ADULT_AGE

child_status(df) ==
    [i \in DOMAIN df |->
        [id |-> df[i].id, key |-> df[i].key, age |-> df[i].age,
         ind |-> df[i].ind, fam |-> df[i].fam,
         child |-> IsChild(df[i].age), adult |-> ~IsChild(df[i].age)]]

ChildStatus ==
    /\ pc = "child_status"
    /\ hmis' = child_status(hmis)
    /\ cp' = child_status(cp)
    /\ pc' = "family_characteristics"
    /\ UNCHANGED <<hmis_dups, cp_dups, matching, G_individuals, G_families,
                   hmis_individuals, cp_individuals, hmis_families, cp_families,
                   edges, grouped_ids, frame, raised>>

KeyHasNa(r) == \E i \in DOMAIN r.key : r.key[i] = Null

\* groupby(group_ids) leaves out the rows with a missing key; whatever such a
\* row gets in 'With Child?' / 'With Adult?' (its own flag or NaN), the
\* conjunction of the two is False
WithChild(df, i) ==
    ~KeyHasNa(df[i]) /\ \E j \in DOMAIN df : df[j].key = df[i].key /\ df[j].child

WithAdult(df, i) ==
    ~KeyHasNa(df[i]) /\ \E j \in DOMAIN df : df[j].key = df[i].key /\ df[j].adult

\* variant: the adult half of the conjunction is lost
WithChildOnly(df, i) == WithChild(df, i)

WithFamily(df, i) == WithChild(df, i) /\ WithAdult(df, i)

\* variant: no aggregation over the family label
OwnGroupFlag(df, i) == WithFamily(df, i)

\* groupby(family_id)['With Family?'].transform(any), within one table
FamilyFlag(df, i) ==
    df[i].fam # Null /\ \E j \in DOMAIN df : df[j].fam = df[i].fam /\ WithFamily(df, j)

generate_family_characteristics(df) ==
    [i \in DOMAIN df |->
        [id |-> df[i].id, key |-> df[i].key, age |-> df[i].age,
         ind |-> df[i].ind, fam |-> df[i].fam,
         child |-> df[i].child, adult |-> df[i].adult,
         with_family |-> WithFamily(df, i), family |-> FamilyFlag(df, i)]]

GenerateFamilyCharacteristics ==
    /\ pc = "family_characteristics"
    /\ hmis' = generate_family_characteristics(hmis)
    /\ cp' = generate_family_characteristics(cp)
    /\ pc' = "done"
    /\ UNCHANGED <<hmis_dups, cp_dups, matching, G_individuals, G_families,
                   hmis_individuals, cp_individuals, hmis_families, cp_families,
                   edges, grouped_ids, frame, raised>>

----------------------------------------------------------------------------
(* get_hmis_cp on bounded inputs *)

NoFrame == [id \in {} |-> 0]

Blank ==
    /\ G_individuals = EmptyGraph
    /\ G_families = EmptyGraph
    /\ hmis_individuals = NoFrame
    /\ cp_individuals = NoFrame
    /\ hmis_families = NoFrame
    /\ cp_families = NoFrame
    /\ edges = <<>>
    /\ grouped_ids = <<>>
    /\ frame = NoFrame
    /\ raised = FALSE

\* HMIS key: (Family Site Identifier, Program Start Date); CP key: (Caseid)
HmisKeys == {<<Null, 1>>, <<1, 1>>}
CpKeys == {<<1>>, <<2>>}
HmisRows == [id : Ids, key : HmisKeys, age : {ADULT_AGE}]
CpRows == [id : Ids, key : CpKeys, age : {ADULT_AGE}]
DupRows == [key : {<<1>>}, id : Ids]
MatchRows == [clientid : Ids, sui : Ids, other : {1}]
                 \cup {[clientid |-> 1, sui |-> 1, other |-> Null]}

Init ==
    /\ pc = "individuals"
    /\ \E n1 \in 0..MaxRows :
       \E n2 \in 0..(MaxRows - n1) :
       \E n3 \in 0..(MaxRows - n1 - n2) :
       \E n4 \in 0..(MaxRows - n1 - n2 - n3) :
       \E n5 \in 0..(MaxRows - n1 - n2 - n3 - n4) :
          /\ hmis \in SeqsOfLen(HmisRows, n1)
          /\ cp \in SeqsOfLen(CpRows, n2)
          /\ hmis_dups \in SeqsOfLen(DupRows, n3)
          /\ cp_dups \in SeqsOfLen(DupRows, n4)
          /\ matching \in SeqsOfLen(MatchRows, n5)
    /\ Blank

Next ==
    \/ BuildIndividuals
    \/ BuildFamilies
    \/ ResolveLabels
    \/ ChildStatus
    \/ GenerateFamilyCharacteristics

Spec == Init /\ [][Next]_vars

----------------------------------------------------------------------------
(* The family flags on inputs with children and adults *)

HmisFamKeys == {<<Null, 1>>, <<1, 1>>, <<1, 2>>}
HmisFamRows == [id : Ids, key : HmisFamKeys, age : Ages]
CpFamRows == [id : {1}, key : {<<1>>}, age : Ages \cup {Null}]

\* no evidence, one Link Plus set joining HMIS ids 1 and 2, or one match
FamEvidence ==
    { [dups |-> <<>>, match |-> <<>>],
      [dups |-> <<[key |-> <<1>>, id |-> 1], [key |-> <<1>>, id |-> 2]>>,
       match |-> <<>>],
      [dups |-> <<>>, match |-> <<[clientid |-> 1, sui |-> 1, other |-> 1]>>] }

InitFam ==
    /\ pc = "individuals"
    /\ \E n1 \in 0..MaxFamRows :
       \E n2 \in 0..(MaxFamRows - n1) :
          /\ hmis \in SeqsOfLen(HmisFamRows, n1)
          /\ cp \in SeqsOfLen(CpFamRows, n2)
    /\ \E ev \in FamEvidence :
          /\ hmis_dups = ev.dups
          /\ matching = ev.match
    /\ cp_dups = <<>>
    /\ Blank

SpecFam == InitFam /\ [][Next]_vars

----------------------------------------------------------------------------
(* group_edges, matching_edges and create_dataframe_from_grouped_ids alone *)

GroupRows == [key : {<<Null>>, <<1>>, <<2>>}, id : Ids \cup {Null}]

InitGroup ==
    /\ pc = "group_edges"
    /\ \E n \in 0..MaxEdgeRows : hmis_dups \in SeqsOfLen(GroupRows, n)
    /\ hmis = <<>> /\ cp = <<>> /\ cp_dups = <<>> /\ matching = <<>>
    /\ Blank

GroupEdges ==
    /\ pc = "group_edges"
    /\ edges' = group_edges("h", hmis_dups)
    /\ pc' = "returned"
    /\ UNCHANGED <<hmis, cp, hmis_dups, cp_dups, matching, G_individuals,
                   G_families, hmis_individuals, cp_individuals, hmis_families,
                   cp_families, grouped_ids, frame, raised>>

NextGroup == GroupEdges

SpecGroup == InitGroup /\ [][NextGroup]_vars

AllMatchRows ==
    [clientid : Ids \cup {Null}, sui : Ids \cup {Null}, other : {Null, 1}]

InitMatch ==
    /\ pc = "matching_edges"
    /\ \E n \in 0..MaxMatchRows : matching \in SeqsOfLen(AllMatchRows, n)
    /\ hmis = <<>> /\ cp = <<>> /\ hmis_dups = <<>> /\ cp_dups = <<>>
    /\ Blank

\* no statement of matching_edges raises on a row with a missing cell
MatchingEdges ==
    /\ pc = "matching_edges"
    /\ edges' = matching_edges(matching)
    /\ raised' = FALSE
    /\ pc' = "returned"
    /\ UNCHANGED <<hmis, cp, hmis_dups, cp_dups, matching, G_individuals,
                   G_families, hmis_individuals, cp_individuals, hmis_families,
                   cp_families, grouped_ids, frame>>

NextMatch == MatchingEdges

SpecMatch == InitMatch /\ [][NextMatch]_vars

InitFrame ==
    /\ pc = "create_dataframe"
    /\ hmis = <<>> /\ cp = <<>> /\ hmis_dups = <<>> /\ cp_dups = <<>>
    /\ matching = <<>>
    /\ G_individuals = EmptyGraph /\ G_families = EmptyGraph
    /\ hmis_individuals = NoFrame /\ cp_individuals = NoFrame
    /\ hmis_families = NoFrame /\ cp_families = NoFrame
    /\ edges = <<>>
    /\ \E n \in 0..MaxGroups : grouped_ids \in SeqsOfLen(SUBSET Ids, n)
    /\ frame = NoFrame
    /\ raised = FALSE

\* the dict comprehension and the two constructors have no raising path
CreateDataframe ==
    /\ pc = "create_dataframe"
    /\ frame' = create_dataframe_from_grouped_ids(grouped_ids)
    /\ raised' = FALSE
    /\ pc' = "returned"
    /\ UNCHANGED <<hmis, cp, hmis_dups, cp_dups, matching, G_individuals,
                   G_families, hmis_individuals, cp_individuals, hmis_families,
                   cp_families, edges, grouped_ids>>

NextFrame == CreateDataframe

SpecFrame == InitFrame /\ [][NextFrame]_vars

----------------------------------------------------------------------------
(* Vocabulary of the properties: paths, evidence and positions, stated      *)
(* from the tables and the edge sets, not from the component enumeration.   *)

NodeSet(G) == Range(G.nodes)

RECURSIVE ReachWithin(_, _, _)
ReachWithin(E, S, k) ==
    IF k = 0 THEN S
    ELSE ReachWithin(E, S \cup {m \in UNION E : \E n \in S : {n, m} \in E}, k - 1)

\* a path of edges of E joins a and b
Linked(E, a, b) == b \in ReachWithin(E, {a}, Cardinality(UNION E))

LabelsDone == pc \in {"child_status", "family_characteristics", "done"}

\* get_client_family_ids has just returned its two tables
Returned == pc = "child_status"

\* the family graph has just been built
FamiliesBuilt == pc = "labels"

RecordNodes ==
    {<<"h", hmis[i].id>> : i \in DOMAIN hmis} \cup {<<"c", cp[i].id>> : i \in DOMAIN cp}

IndividualLabel(n) ==
    IF n[1] = "h" THEN Lookup(hmis_individuals, n[2]) ELSE Lookup(cp_individuals, n[2])

\* position in G.nodes of the earliest node joined to n by a path
FirstPosition(G, n) ==
    CHOOSE i \in DOMAIN G.nodes :
        /\ Linked(G.edges, n, G.nodes[i])
        /\ \A j \in DOMAIN G.nodes : Linked(G.edges, n, G.nodes[j]) => i <= j

\* number of components enumerated before the component of n
EnumerationPosition(G, n) ==
    Cardinality({FirstPosition(G, m) : m \in
        {x \in NodeSet(G) : FirstPosition(G, x) < FirstPosition(G, n)}})

\* rows a duplicate table contributes evidence with (no missing cell)
DupEvidence(node_prefix, df) ==
    {{<<node_prefix, df[ij[1]].id>>, <<node_prefix, df[ij[2]].id>>} : ij \in
        {ij \in (DOMAIN df) \X (DOMAIN df) :
            /\ ~HasNa(df[ij[1]]) /\ ~HasNa(df[ij[2]])
            /\ df[ij[1]].key = df[ij[2]].key}}

\* match rows with both ids present
MatchEvidence ==
    {{<<"c", matching[i].clientid>>, <<"h", matching[i].sui>>} : i \in
        {k \in DOMAIN matching : matching[k].clientid # Null /\ matching[k].sui # Null}}

\* duplicate-link and cross-match edges of the data model
IdentityEvidence ==
    DupEvidence("h", hmis_dups) \cup DupEvidence("c", cp_dups) \cup MatchEvidence

\* co-family edges of the data model
FamilyEvidence == DupEvidence("h", hmis) \cup DupEvidence("c", cp)

----------------------------------------------------------------------------
(* C1 -- Cross-source consistency: once the labels are computed, an HMIS id *)
(* a and a Connecting Point id b whose nodes are joined by a path of edges  *)
(* of the identity graph carry the same individual label, and every         *)
(* individual label is the position of the node's component in the overall  *)
(* enumeration of the components (a component without a member of a source  *)
(* keeps its position; labels are not renumbered per source).               *)
C1_CrossSourceConsistency ==
    Returned =>
        /\ \A n \in NodeSet(G_individuals) : \A m \in NodeSet(G_individuals) :
              (n[1] = "h" /\ m[1] = "c" /\ Linked(G_individuals.edges, n, m))
                 => IndividualLabel(n) = IndividualLabel(m)
        /\ \A n \in NodeSet(G_individuals) :
              IndividualLabel(n) = EnumerationPosition(G_individuals, n)

\* an HMIS id and a CP id share a component that is enumerated after a
\* component with no CP member: the CP label is not the first CP label 0
C1_Witness ==
    /\ Returned
    /\ \E n \in NodeSet(G_individuals) : \E m \in NodeSet(G_individuals) :
          /\ n[1] = "h" /\ m[1] = "c"
          /\ Linked(G_individuals.edges, n, m)
          /\ IndividualLabel(n) = IndividualLabel(m)
          /\ IndividualLabel(m) = 1
          /\ \A x \in NodeSet(G_individuals) :
                IndividualLabel(x) = 0 => x[1] = "h"

(* C2 -- Monotonic refinement: two nodes joined by a path in the identity   *)
(* graph are joined by a path in the family graph, so two output records    *)
(* (of either table) with equal individual labels have equal family labels. *)
C2_MonotonicRefinement ==
    /\ FamiliesBuilt =>
          \A n \in NodeSet(G_individuals) : \A m \in NodeSet(G_individuals) :
             Linked(G_individuals.edges, n, m) =>
                /\ n \in NodeSet(G_families) /\ m \in NodeSet(G_families)
                /\ Linked(G_families.edges, n, m)
    /\ Returned =>
          \A r \in Range(hmis) \cup Range(cp) : \A t \in Range(hmis) \cup Range(cp) :
             r.ind = t.ind => r.fam = t.fam

\* an HMIS and a CP record share the individual label (hence the family
\* label) while two other records share only the family label
C2_Witness ==
    /\ Returned
    /\ \E r \in Range(hmis) : \E t \in Range(cp) : r.ind = t.ind /\ r.fam = t.fam
    /\ \E r \in Range(hmis) : \E t \in Range(hmis) : r.ind # t.ind /\ r.fam = t.fam

(* C3 -- Individual labels separate unrelated identifiers: two nodes that   *)
(* no path of duplicate-link and cross-match evidence joins never carry the *)
(* same individual label, and building the family graph leaves the identity *)
(* graph as it was built.                                                   *)
C3_UnrelatedSeparated ==
    /\ Returned =>
          \A n \in NodeSet(G_individuals) : \A m \in NodeSet(G_individuals) :
             (n # m /\ ~Linked(IdentityEvidence, n, m))
                => IndividualLabel(n) # IndividualLabel(m)
    /\ FamiliesBuilt =>
          /\ G_individuals = IndividualsGraph
          /\ \A e \in G_individuals.edges : e \in IdentityEvidence

\* two records of one family (a co-family edge) that no identity evidence
\* joins: one family label, two individual labels
C3_Witness ==
    /\ Returned
    /\ \E i \in DOMAIN hmis : \E j \in DOMAIN hmis :
          /\ hmis[i].id # hmis[j].id
          /\ {<<"h", hmis[i].id>>, <<"h", hmis[j].id>>} \in FamilyEvidence
          /\ ~Linked(IdentityEvidence, <<"h", hmis[i].id>>, <<"h", hmis[j].id>>)
          /\ hmis[i].fam = hmis[j].fam
          /\ hmis[i].ind # hmis[j].ind

RetainedEvidenceNodes ==
    UNION (DupEvidence("h", hmis_dups) \cup DupEvidence("c", cp_dups)
           \cup {{<<"c", matching[i].clientid>>, <<"h", matching[i].sui>>} : i \in
                   {k \in DOMAIN matching : ~MatchHasNa(matching[k])}})

(* C5 (as claimed) -- the vertex set of the identity graph is exactly the   *)
(* set of tagged raw identifiers of the two record tables.                  *)
C5_VerticesAreRecordIds ==
    pc # "individuals" => NodeSet(G_individuals) = RecordNodes

(* C5 (amended) -- the vertex set of the identity graph is the set of       *)
(* tagged raw identifiers of the two record tables together with the        *)
(* identifiers of the evidence rows that are kept: every record identifier  *)
(* is a vertex, and so is an identifier that occurs only in a retained row  *)
(* of a duplicate table or of the match table.                              *)
C5_VerticesAreRecordAndEvidenceIds ==
    pc # "individuals" =>
        /\ RecordNodes \subseteq NodeSet(G_individuals)
        /\ NodeSet(G_individuals) = RecordNodes \cup RetainedEvidenceNodes
        /\ Cardinality(NodeSet(G_individuals)) = Len(G_individuals.nodes)

\* an evidence-free record id is a vertex, and so is an id that only a
\* duplicate table names
C5_Witness ==
    /\ pc = "families"
    /\ \E n \in RecordNodes : n \notin RetainedEvidenceNodes
    /\ \E n \in NodeSet(G_individuals) : n \notin RecordNodes /\ n[1] = "h"

----------------------------------------------------------------------------
(* Family flags *)

Tables == {hmis, cp}

\* the rows of df in the grouping-key group of row i (none for a missing key)
KeyGroup(df, i) ==
    {j \in DOMAIN df : ~KeyHasNa(df[i]) /\ df[j].key = df[i].key}

ChildrenOnly(df, i) ==
    KeyGroup(df, i) # {} /\ \A j \in KeyGroup(df, i) : df[j].child /\ ~df[j].adult

Qualifies(df, i) ==
    /\ \E j \in KeyGroup(df, i) : df[j].child
    /\ \E j \in KeyGroup(df, i) : df[j].adult

(* C7 (as claimed) -- when a grouping-key group holds only child records,   *)
(* every record of the group has With Family? = false and every record      *)
(* carrying the family label of the group has Family? = false (read here    *)
(* in its narrowest sense: the records of the group's own table).           *)
C7_ChildrenOnlyNeverFamily ==
    pc = "done" =>
        \A df \in Tables : \A i \in DOMAIN df :
            ChildrenOnly(df, i) =>
                /\ ~df[i].with_family
                /\ \A j \in DOMAIN df : df[j].fam = df[i].fam => ~df[j].family

(* C7 (amended) -- when a grouping-key group holds only child records,      *)
(* every record of the group has With Family? = false, and a record of the  *)
(* same table carrying the family label of the group has Family? = true     *)
(* exactly when some other grouping-key group of that table under the same  *)
(* family label holds both a child and an adult; the size of the            *)
(* children-only group plays no part.                                       *)
C7_ChildrenOnlyGroup ==
    pc = "done" =>
        \A df \in Tables : \A i \in DOMAIN df :
            ChildrenOnly(df, i) =>
                /\ \A j \in KeyGroup(df, i) : ~df[j].with_family
                /\ \A j \in DOMAIN df :
                      df[j].fam = df[i].fam =>
                         (df[j].family <=>
                             \E k \in DOMAIN df :
                                /\ df[k].fam = df[i].fam
                                /\ df[k].key # df[i].key
                                /\ Qualifies(df, k))

\* a children-only group of two records: no family flag on either
C7_Witness ==
    /\ pc = "done"
    /\ \E i \in DOMAIN hmis : \E j \in DOMAIN hmis :
          /\ i # j /\ j \in KeyGroup(hmis, i)
          /\ ChildrenOnly(hmis, i)
          /\ ~hmis[i].with_family /\ ~hmis[j].with_family
          /\ ~hmis[i].family /\ ~hmis[j].family

(* C8 (as claimed) -- when a grouping-key group under family label L holds  *)
(* a child and an adult, every output record with family label L, in either *)
(* table, has Family? = true; and Family? = true only where some record     *)
(* sharing the family label has With Family? = true.                        *)
C8_AnyEvidenceAcrossTables ==
    pc = "done" =>
        /\ \A df \in Tables : \A i \in DOMAIN df :
              Qualifies(df, i) =>
                 \A r \in Range(hmis) \cup Range(cp) :
                    r.fam = df[i].fam => r.family
        /\ \A r \in Range(hmis) \cup Range(cp) :
              r.family =>
                 \E t \in Range(hmis) \cup Range(cp) :
                    t.fam = r.fam /\ t.with_family

(* C8 (amended) -- when a grouping-key group of a table holds a child and   *)
(* an adult, every record of that same table carrying the group's family    *)
(* label has Family? = true; and a record has Family? = true only if some   *)
(* record of its own table sharing its family label has With Family? =      *)
(* true.  The flags of the other table are not consulted.                   *)
C8_AnyEvidenceWithinTable ==
    pc = "done" =>
        \A df \in Tables :
            /\ \A i \in DOMAIN df :
                  Qualifies(df, i) =>
                     /\ df[i].with_family
                     /\ \A j \in DOMAIN df : df[j].fam = df[i].fam => df[j].family
            /\ \A j \in DOMAIN df :
                  df[j].family =>
                     \E k \in DOMAIN df : df[k].fam = df[j].fam /\ df[k].with_family

\* a family label spanning two grouping keys, one of them with a child and
\* an adult: the record of the other key is flagged Family? as well
C8_Witness ==
    /\ pc = "done"
    /\ \E i \in DOMAIN hmis : \E j \in DOMAIN hmis :
          /\ Qualifies(hmis, i)
          /\ hmis[j].fam = hmis[i].fam
          /\ hmis[j].key # hmis[i].key
          /\ ~hmis[j].with_family
          /\ hmis[j].family

----------------------------------------------------------------------------
(* The edge builders and the label materializer alone *)

\* the (key, id) pairs of the rows with no missing cell
RetainedPairs(df) == {<<df[i].key, df[i].id>> : i \in {k \in DOMAIN df : ~HasNa(df[k])}}

LoopFree(es) == SelectSeq(es, LAMBDA e : e[1] # e[2])
Loops(es) == SelectSeq(es, LAMBDA e : e[1] = e[2])

(* C10 -- group_edges drops the rows with a missing key or id, removes      *)
(* duplicate (key, id) rows, and returns one edge per ordered pair of ids   *)
(* sharing a key, self-pairs included: two distinct ids are joined by an    *)
(* edge exactly when some key has a retained row for each; adding the       *)
(* self-loops to a graph leaves every component it had, the only new        *)
(* components being single nodes.                                           *)
C10_GroupEdges ==
    pc = "returned" =>
        LET kept == RetainedPairs(hmis_dups)
            G0   == add_edges_from(EmptyGraph, LoopFree(edges))
            G1   == add_edges_from(G0, Loops(edges))
        IN  /\ Range(edges) =
                  {<< <<"h", pq[1][2]>>, <<"h", pq[2][2]>> >> : pq \in
                      {x \in kept \X kept : x[1][1] = x[2][1]}}
            /\ \A a \in Ids : \A b \in Ids :
                  a # b =>
                     (<< <<"h", a>>, <<"h", b>> >> \in Range(edges)
                         <=> \E k \in {p[1] : p \in kept} :
                                <<k, a>> \in kept /\ <<k, b>> \in kept)
            /\ \A p \in kept : << <<"h", p[2]>>, <<"h", p[2]>> >> \in Range(edges)
            /\ \A e \in Range(edges) : <<e[2], e[1]>> \in Range(edges)
            /\ Len(edges) = Cardinality({pq \in kept \X kept : pq[1][1] = pq[2][1]})
            /\ \A c \in Range(connected_components(G0)) :
                  c \in Range(connected_components(G1))
            /\ \A c \in Range(connected_components(G1)) :
                  c \notin Range(connected_components(G0)) => Cardinality(c) = 1

\* a table with a dropped row, a repeated row and two ids under one key
C10_Witness ==
    /\ pc = "returned"
    /\ \E i \in DOMAIN hmis_dups : HasNa(hmis_dups[i])
    /\ \E i \in DOMAIN hmis_dups : \E j \in DOMAIN hmis_dups :
          i # j /\ hmis_dups[i] = hmis_dups[j] /\ ~HasNa(hmis_dups[i])
    /\ << <<"h", 1>>, <<"h", 2>> >> \in Range(edges)
    /\ Len(edges) = 4

\* one edge per row with both ids present, in row order
EdgesOfRowsWithBothIds(df) ==
    LET kept == SelectSeq(df, LAMBDA r : r.clientid # Null /\ r.sui # Null)
    IN  [k \in DOMAIN kept |-> << <<"c", kept[k].clientid>>, <<"h", kept[k].sui>> >>]

(* C9 -- matching_edges discards a match row exactly when its Connecting    *)
(* Point id or its HMIS id is missing; every other row, whatever its other  *)
(* columns hold, yields one edge ('c', clientid) -- ('h', Subject Unique    *)
(* Identifier); no error is raised.                                         *)
C9_MatchingEdges ==
    pc = "returned" =>
        /\ edges = EdgesOfRowsWithBothIds(matching)
        /\ ~raised

(* C6 -- create_dataframe_from_grouped_ids fails with an error when a raw   *)
(* identifier occurs in more than one group, rather than returning a        *)
(* mapping that gives the identifier one of the group positions.            *)
C6_DuplicateIdRejected ==
    pc = "returned" =>
        ((\E i \in DOMAIN grouped_ids : \E j \in DOMAIN grouped_ids :
             i # j /\ grouped_ids[i] \cap grouped_ids[j] # {})
          => raised)

====
